---- MODULE Spec2Model ----
(***************************************************************************)
(* Model of search_views.py: find_text_in_views (the os.walk traversal,    *)
(* the per-file read with its try/except, the view_pattern scan and the    *)
(* text classification) followed by the module-level reporter.             *)
(*                                                                         *)
(* Text is a sequence of one-character strings.  Offsets are 0-based as in *)
(* Python: content[:k] is SubSeq(content, 1, k).                           *)
(***************************************************************************)
EXTENDS Integers, Sequences, FiniteSets, TLC

VARIABLES
    tree,      \* the directory tree on disk: directory path -> [dirs, files]
    data,      \* file path -> what open()/read() gives: [err, text]
    pc,        \* position of the program
    stack,     \* directories os.walk has still to yield
    root,      \* loop variable of the os.walk loop
    files,     \* the part of `files` the inner loop has not visited yet
    filepath,  \* os.path.join(root, file) of the file being scanned
    content,   \* f.read() of the file being scanned
    pos,       \* where view_pattern.finditer resumes in content
    issues,    \* the list find_text_in_views returns
    output,    \* the lines printed so far
    printed,   \* number of issues the reporter loop has printed
    opened,    \* history: the paths open() was called on, in order
    regions    \* history: the matches finditer yielded, in order

vars == <<tree, data, pc, stack, root, files, filepath, content, pos,
          issues, output, printed, opened, regions>>

----------------------------------------------------------------------------
(* Bounds of the model *)

\* content of the file under test: at most this many tokens
MaxTokens == 4

\* the long regions have lengths SnippetLimit - Slack .. SnippetLimit + Slack
Slack == 2

----------------------------------------------------------------------------
(* Sequence helpers *)

Range(s) == {s[i] : i \in 1..Len(s)}

Min(S) == CHOOSE x \in S : \A y \in S : x <= y

\* s[i:i+len(lit)] == lit, i 0-based
StartsAt(s, lit, i) ==
    /\ i >= 0
    /\ i + Len(lit) <= Len(s)
    /\ SubSeq(s, i + 1, i + Len(lit)) = lit

\* str.find(lit, from): the least offset >= from where lit occurs, or -1
Find(s, lit, from) ==
    LET hits == {k \in from..Len(s) : StartsAt(s, lit, k)}
    IN  IF hits = {} THEN -1 ELSE Min(hits)

\* `lit in s`
Contains(s, lit) == Find(s, lit, 0) # -1

\* s.endswith(lit)
EndsWith(s, lit) == Len(lit) <= Len(s) /\ StartsAt(s, lit, Len(s) - Len(lit))

\* s.count(c) for a one-character c
Count(s, c) == Cardinality({i \in 1..Len(s) : s[i] = c})

----------------------------------------------------------------------------
(* Character classes *)

Whitespace == {" ", "\n", "\t", "\r"}

Alnum ==
    {"a", "b", "c", "d", "e", "f", "g", "h", "i", "j", "k", "l", "m",
     "n", "o", "p", "q", "r", "s", "t", "u", "v", "w", "x", "y", "z",
     "A", "B", "C", "D", "E", "F", "G", "H", "I", "J", "K", "L", "M",
     "N", "O", "P", "Q", "R", "S", "T", "U", "V", "W", "X", "Y", "Z",
     "0", "1", "2", "3", "4", "5", "6", "7", "8", "9"}

\* str.strip()
RECURSIVE LStrip(_)
LStrip(s) ==
    IF s # <<>> /\ Head(s) \in Whitespace THEN LStrip(Tail(s)) ELSE s

RECURSIVE RStrip(_)
RStrip(s) ==
    IF s # <<>> /\ s[Len(s)] \in Whitespace
    THEN RStrip(SubSeq(s, 1, Len(s) - 1)) ELSE s

Strip(s) == RStrip(LStrip(s))

----------------------------------------------------------------------------
(* The regular expressions *)

OpenLit == <<"<", "V", "i", "e", "w">>
CloseLit == <<"<", "/", "V", "i", "e", "w", ">">>

NoMatch == [start |-> -1, body |-> -1, close |-> -1, end |-> -1]

Max(S) == CHOOSE x \in S : \A y \in S : x >= y

\* the body matched greedily, (.*) for (.*?): up to the last '</View>'
ViewMatchAt_greedy(s, i) ==
    IF ~StartsAt(s, OpenLit, i) THEN NoMatch
    ELSE LET gt == Find(s, <<">">>, i + Len(OpenLit))
         IN  IF gt = -1 THEN NoMatch
             ELSE LET cls == {k \in (gt + 1)..Len(s) : StartsAt(s, CloseLit, k)}
                  IN  IF cls = {} THEN NoMatch
                      ELSE [start |-> i, body |-> gt + 1, close |-> Max(cls),
                            end |-> Max(cls) + Len(CloseLit)]

\* view_pattern anchored at offset i: '<View', then [^>]* up to the first
\* '>', then the lazy (.*?) (DOTALL) up to the first '</View>' after it
ViewMatchAt(s, i) ==
    IF ~StartsAt(s, OpenLit, i) THEN NoMatch
    ELSE LET gt == Find(s, <<">">>, i + Len(OpenLit))
         IN  IF gt = -1 THEN NoMatch
             ELSE LET cl == Find(s, CloseLit, gt + 1)
                  IN  IF cl = -1 THEN NoMatch
                      ELSE [start |-> i, body |-> gt + 1, close |-> cl,
                            end |-> cl + Len(CloseLit)]

\* one step of view_pattern.finditer(content): the leftmost match that
\* starts at or after offset from
ViewSearch(s, from) ==
    LET hits == {i \in from..Len(s) : ViewMatchAt(s, i) # NoMatch}
    IN  IF hits = {} THEN NoMatch ELSE ViewMatchAt(s, Min(hits))

\* match.group(0) and match.group(1)
Group0(s, m) == SubSeq(s, m.start + 1, m.end)
Group1(s, m) == SubSeq(s, m.body + 1, m.close)

\* re.sub(o [^c]* c, '', s) for one-character delimiters o and c: scanning
\* left to right, a span from o to the first c after it is dropped
RECURSIVE SubSpans(_, _, _)
SubSpans(s, o, c) ==
    IF s = <<>> THEN <<>>
    ELSE IF Head(s) = o /\ Find(s, <<c>>, 1) # -1
         THEN SubSpans(SubSeq(s, Find(s, <<c>>, 1) + 2, Len(s)), o, c)
         ELSE <<Head(s)>> \o SubSpans(Tail(s), o, c)

\* lines 37-39
Cleaned(view_content) ==
    Strip(SubSpans(SubSpans(view_content, "{", "}"), "<", ">"))

\* re.search(r'[a-zA-Z0-9]+', s)
SearchAlnum(s) == Range(s) \cap Alnum # {}

\* line 32
IsEmptyView(view_content) == view_content = <<>>

\* the search for an alphanumeric character left out
LooksLikeText_nonempty(cleaned) == cleaned # <<>>

\* line 42
LooksLikeText(cleaned) == cleaned # <<>> /\ SearchAlnum(cleaned)

\* the count of newlines taken as the line number
LineNum_zero(s, m) == Count(SubSeq(s, 1, m.start), "\n")

\* line 44
LineNum(s, m) == Count(SubSeq(s, 1, m.start), "\n") + 1

SnippetLimit == 100
Ellipsis == <<".", ".", ".">>

\* the limit compared with >= for >
Snippet_ge(g) ==
    IF Len(g) >= SnippetLimit THEN SubSeq(g, 1, SnippetLimit) \o Ellipsis ELSE g

\* line 48
Snippet(g) ==
    IF Len(g) > SnippetLimit THEN SubSeq(g, 1, SnippetLimit) \o Ellipsis ELSE g

\* lines 45-49
Issue(path, s, m) ==
    [file |-> path, line |-> LineNum(s, m), content |-> Snippet(Group0(s, m))]

\* the body taken without strip()
ViewContent_raw(s, m) == Group1(s, m)

\* line 29
ViewContent(s, m) == Strip(Group1(s, m))

\* the new issue put in front
AddIssue_front(list, issue) == <<issue>> \o list

\* line 45: issues.append(...)
AddIssue(list, issue) == Append(list, issue)

----------------------------------------------------------------------------
(* The tree walker *)

Sep == <<"/">>

\* os.path.join(root, name)
Join(dir, name) == dir \o Sep \o name

\* line 57
src_dir == <<"s", "r", "c">>

Markers ==
    {<<"n", "o", "d", "e", "_", "m", "o", "d", "u", "l", "e", "s">>,
     <<".", "g", "i", "t">>,
     <<"b", "u", "i", "l", "d">>}

Extensions ==
    {<<".", "t", "s", "x">>, <<".", "j", "s", "x">>,
     <<".", "t", "s">>, <<".", "j", "s">>}

\* the marker taken as the name of the yielded directory, not as a substring
SkipRoot_name(dir) == \E mk \in Markers : EndsWith(dir, Sep \o mk)

\* line 17
SkipRoot(dir) == \E mk \in Markers : Contains(dir, mk)

\* the extension looked for anywhere in the name
Selected_anywhere(file) == \E ext \in Extensions : Contains(file, ext)

\* line 21
Selected(file) == \E ext \in Extensions : EndsWith(file, ext)

\* os.walk, top-down: after yielding a directory its sub-directories are
\* walked in listing order, before the siblings that follow it
Descend(dir, rest) ==
    [i \in 1..Len(tree[dir].dirs) |-> Join(dir, tree[dir].dirs[i])] \o rest

----------------------------------------------------------------------------
(* The disks the scan is run on *)

n_node_modules == <<"n", "o", "d", "e", "_", "m", "o", "d", "u", "l", "e", "s">>
n_git == <<".", "g", "i", "t">>
n_mybuild == <<"m", "y", "-", "b", "u", "i", "l", "d", "-", "x">>
n_build == <<"b", "u", "i", "l", "d">>
n_ui == <<"u", "i">>
n_p == <<"p">>
f_a == <<"a", ".", "t", "s", "x">>
f_md == <<"n", ".", "m", "d">>
f_b == <<"b", ".", "j", "s">>
f_c == <<"c", ".", "j", "s", "x">>
f_d == <<"d", ".", "t", "s">>
f_k == <<"k", ".", "t", "s", ".", "m", "d">>
f_View == <<"V", "i", "e", "w", ".", "t", "s", "x">>
f_i == <<"i", ".", "j", "s">>
f_h == <<"h", ".", "j", "s">>
f_e == <<"e", ".", "t", "s">>
f_x == <<"x", ".", "t", "s", "x">>
f_y == <<"y", ".", "j", "s">>

Dir(ds, fs) == [dirs |-> ds, files |-> fs]

\* a source tree with a dependency cache (nested), a version-control
\* directory, a directory whose name merely contains `build`, and files of
\* every recognized extension next to files of other extensions
WalkTree ==
    (src_dir :> Dir(<<n_node_modules, n_ui, n_mybuild, n_git>>, <<f_a, f_md>>))
    @@ (Join(src_dir, n_node_modules) :> Dir(<<n_p>>, <<f_View>>))
    @@ (Join(Join(src_dir, n_node_modules), n_p) :> Dir(<<>>, <<f_i>>))
    @@ (Join(src_dir, n_ui) :> Dir(<<>>, <<f_b, f_k, f_c, f_d>>))
    @@ (Join(src_dir, n_mybuild) :> Dir(<<>>, <<f_e>>))
    @@ (Join(src_dir, n_git) :> Dir(<<>>, <<f_h>>))

\* a one-directory tree around the file under test
UnitTree ==
    (src_dir :> Dir(<<n_build>>, <<f_x, f_md, f_y>>))
    @@ (Join(src_dir, n_build) :> Dir(<<>>, <<f_h>>))

\* every file of a tree, as a set of paths
FilesOf(t) == UNION {{Join(d, f) : f \in Range(t[d].files)} : d \in DOMAIN t}

Text(s) == [err |-> "none", text |-> s]
Fault(e) == [err |-> e, text |-> <<>>]

\* what can go wrong in open() or f.read()
Faults == {Fault("PermissionError"), Fault("UnicodeDecodeError"), Fault("OSError")}

T_open == <<"<", "V", "i", "e", "w", ">">>
T_close == CloseLit
T_attr == <<"<", "V", "i", "e", "w", " ", "s", ">">>
T_self == <<"<", "V", "i", "e", "w", "/", ">">>
T_pager == <<"<", "V", "i", "e", "w", "P", "a", "g", "e", "r", ">">>
T_tag == <<"<", "T", ">">>
T_expr == <<"{", "x", "}">>
T_a == <<"a">>
T_nl == <<"\n">>
T_dot == <<".">>

\* <View>a</View>
Violating == T_open \o T_a \o T_close

\* two issues on lines 2 and 4, with a clean region between them
TwoIssues ==
    T_nl \o Violating \o T_nl \o T_open \o T_expr \o T_close
         \o T_nl \o T_attr \o T_a \o T_dot \o T_close

\* what the files of the walked tree may hold
WalkData == {Text(Violating), Text(TwoIssues), Text(T_open \o T_nl \o T_close)} \cup Faults

Tokens == {T_open, T_close, T_attr, T_self, T_pager, T_tag, T_expr, T_a, T_nl, T_dot}

\* every concatenation of at most n tokens
RECURSIVE TokenTexts(_)
TokenTexts(n) ==
    IF n = 0 THEN {<<>>}
    ELSE LET shorter == TokenTexts(n - 1)
         IN  shorter \cup {t \o s : t \in Tokens, s \in shorter}

\* a single region whose length straddles the snippet limit, after 0 or 1
\* lines of preamble
LongTexts ==
    {pre \o opn \o [i \in 1..(n - Len(opn) - Len(T_close)) |-> "a"] \o T_close :
        pre \in {<<>>, T_nl}, opn \in {T_open, T_attr},
        n \in (SnippetLimit - Slack)..(SnippetLimit + Slack)}

UnitTexts == TokenTexts(MaxTokens) \cup LongTexts

----------------------------------------------------------------------------
(* Initial states *)

\* the files of WalkTree whose content varies
WalkInputs ==
    {Join(src_dir, f_a), Join(Join(src_dir, n_ui), f_b),
     Join(Join(src_dir, n_ui), f_c), Join(Join(src_dir, n_ui), f_d)}

\* the file of UnitTree whose content varies, and the one that cannot be read
UnitInput == Join(src_dir, f_x)
UnitBroken == Join(src_dir, f_y)

Start ==
    /\ pc = "walk"
    /\ stack = <<src_dir>>
    /\ root = <<>>
    /\ files = <<>>
    /\ filepath = <<>>
    /\ content = <<>>
    /\ pos = 0
    /\ issues = <<>>
    /\ output = <<>>
    /\ printed = 0
    /\ opened = <<>>
    /\ regions = <<>>

\* every other file holds a violating region
Init ==
    /\ tree = WalkTree
    /\ \E given \in [WalkInputs -> WalkData] :
          data = [p \in FilesOf(WalkTree) |->
                    IF p \in WalkInputs THEN given[p] ELSE Text(Violating)]
    /\ Start

InitUnit ==
    /\ tree = UnitTree
    /\ \E t \in UnitTexts :
          data = [p \in FilesOf(UnitTree) |->
                    IF p = UnitInput THEN Text(t)
                    ELSE IF p = UnitBroken THEN Fault("PermissionError")
                    ELSE Text(Violating)]
    /\ Start

----------------------------------------------------------------------------
(* Printed lines *)

\* line 52
ErrorLine(path, e) == [kind |-> "Error reading", path |-> path, cause |-> e]

\* line 61
FoundLine(n) == [kind |-> "Found", count |-> n]

\* lines 63-66
IssueLines(issue) ==
    << [kind |-> "File", path |-> issue.file],
       [kind |-> "Line", num |-> issue.line],
       [kind |-> "Content", text |-> issue.content],
       [kind |-> "Rule"] >>

\* line 68
NoneLine == [kind |-> "No instances found"]

----------------------------------------------------------------------------
(* find_text_in_views *)

\* line 15 with line 17 true: the directory is yielded and skipped; os.walk
\* still descends into it
WalkSkip ==
    /\ pc = "walk"
    /\ stack # <<>>
    /\ SkipRoot(Head(stack))
    /\ root' = Head(stack)
    /\ stack' = Descend(Head(stack), Tail(stack))
    /\ UNCHANGED <<tree, data, pc, files, filepath, content, pos, issues,
                   output, printed, opened, regions>>

\* line 15 with line 17 false: the inner loop starts on the directory's files
WalkEnter ==
    /\ pc = "walk"
    /\ stack # <<>>
    /\ ~SkipRoot(Head(stack))
    /\ root' = Head(stack)
    /\ stack' = Descend(Head(stack), Tail(stack))
    /\ files' = tree[Head(stack)].files
    /\ pc' = "files"
    /\ UNCHANGED <<tree, data, filepath, content, pos, issues, output,
                   printed, opened, regions>>

\* line 54: os.walk is exhausted, the function returns
WalkDone ==
    /\ pc = "walk"
    /\ stack = <<>>
    /\ pc' = "report"
    /\ UNCHANGED <<tree, data, stack, root, files, filepath, content, pos,
                   issues, output, printed, opened, regions>>

\* line 21 false
SkipFile ==
    /\ pc = "files"
    /\ files # <<>>
    /\ ~Selected(Head(files))
    /\ files' = Tail(files)
    /\ UNCHANGED <<tree, data, pc, stack, root, filepath, content, pos,
                   issues, output, printed, opened, regions>>

\* lines 21-25: the file is opened and read
OpenOk ==
    /\ pc = "files"
    /\ files # <<>>
    /\ Selected(Head(files))
    /\ LET path == Join(root, Head(files))
       IN  /\ data[path].err = "none"
           /\ filepath' = path
           /\ content' = data[path].text
           /\ opened' = Append(opened, path)
    /\ pos' = 0
    /\ files' = Tail(files)
    /\ pc' = "match"
    /\ UNCHANGED <<tree, data, stack, root, issues, output, printed, regions>>

\* the handler placed around the loops instead of around one file: the
\* error is printed and the function returns what it has
OpenFail_outer ==
    /\ pc = "files"
    /\ files # <<>>
    /\ Selected(Head(files))
    /\ LET path == Join(root, Head(files))
       IN  /\ data[path].err # "none"
           /\ filepath' = path
           /\ opened' = Append(opened, path)
           /\ output' = Append(output, ErrorLine(path, data[path].err))
    /\ pc' = "report"
    /\ UNCHANGED <<tree, data, stack, root, files, content, pos, issues,
                   printed, regions>>

\* lines 21-25 and 51-52: open() or f.read() raises, the handler prints
OpenFail ==
    /\ pc = "files"
    /\ files # <<>>
    /\ Selected(Head(files))
    /\ LET path == Join(root, Head(files))
       IN  /\ data[path].err # "none"
           /\ filepath' = path
           /\ opened' = Append(opened, path)
           /\ output' = Append(output, ErrorLine(path, data[path].err))
    /\ files' = Tail(files)
    /\ UNCHANGED <<tree, data, pc, stack, root, content, pos, issues,
                   printed, regions>>

\* line 20: the inner loop is exhausted
FilesDone ==
    /\ pc = "files"
    /\ files = <<>>
    /\ pc' = "walk"
    /\ UNCHANGED <<tree, data, stack, root, files, filepath, content, pos,
                   issues, output, printed, opened, regions>>

Region(m, stage) == [file |-> filepath, m |-> m, stage |-> stage]

\* line 28: finditer is exhausted
MatchDone ==
    /\ pc = "match"
    /\ ViewSearch(content, pos) = NoMatch
    /\ pc' = "files"
    /\ UNCHANGED <<tree, data, stack, root, files, filepath, content, pos,
                   issues, output, printed, opened, regions>>

\* lines 28-33: a match whose stripped body is empty
MatchEmpty ==
    /\ pc = "match"
    /\ LET m == ViewSearch(content, pos)
       IN  /\ m # NoMatch
           /\ IsEmptyView(ViewContent(content, m))
           /\ pos' = m.end
           /\ regions' = Append(regions, Region(m, "discarded"))
    /\ UNCHANGED <<tree, data, pc, stack, root, files, filepath, content,
                   issues, output, printed, opened>>

\* lines 28-42: a match whose body is classified as not being text
MatchClean ==
    /\ pc = "match"
    /\ LET m == ViewSearch(content, pos)
       IN  /\ m # NoMatch
           /\ ~IsEmptyView(ViewContent(content, m))
           /\ ~LooksLikeText(Cleaned(ViewContent(content, m)))
           /\ pos' = m.end
           /\ regions' = Append(regions, Region(m, "classified"))
    /\ UNCHANGED <<tree, data, pc, stack, root, files, filepath, content,
                   issues, output, printed, opened>>

\* lines 28-49: a match whose body is classified as text
MatchIssue ==
    /\ pc = "match"
    /\ LET m == ViewSearch(content, pos)
       IN  /\ m # NoMatch
           /\ ~IsEmptyView(ViewContent(content, m))
           /\ LooksLikeText(Cleaned(ViewContent(content, m)))
           /\ issues' = AddIssue(issues, Issue(filepath, content, m))
           /\ pos' = m.end
           /\ regions' = Append(regions, Region(m, "classified"))
    /\ UNCHANGED <<tree, data, pc, stack, root, files, filepath, content,
                   output, printed, opened>>

----------------------------------------------------------------------------
(* The reporter *)

\* lines 60-61
ReportFound ==
    /\ pc = "report"
    /\ issues # <<>>
    /\ output' = Append(output, FoundLine(Len(issues)))
    /\ pc' = "print"
    /\ UNCHANGED <<tree, data, stack, root, files, filepath, content, pos,
                   issues, printed, opened, regions>>

\* lines 62-66: one iteration of the loop over issues
ReportIssue ==
    /\ pc = "print"
    /\ printed < Len(issues)
    /\ output' = output \o IssueLines(issues[printed + 1])
    /\ printed' = printed + 1
    /\ UNCHANGED <<tree, data, pc, stack, root, files, filepath, content,
                   pos, issues, opened, regions>>

\* line 62: the loop over issues is exhausted
ReportEnd ==
    /\ pc = "print"
    /\ printed = Len(issues)
    /\ pc' = "done"
    /\ UNCHANGED <<tree, data, stack, root, files, filepath, content, pos,
                   issues, output, printed, opened, regions>>

\* lines 67-68
ReportNone ==
    /\ pc = "report"
    /\ issues = <<>>
    /\ output' = Append(output, NoneLine)
    /\ pc' = "done"
    /\ UNCHANGED <<tree, data, stack, root, files, filepath, content, pos,
                   issues, printed, opened, regions>>

Next ==
    \/ WalkSkip
    \/ WalkEnter
    \/ WalkDone
    \/ SkipFile
    \/ OpenOk
    \/ OpenFail
    \/ FilesDone
    \/ MatchDone
    \/ MatchEmpty
    \/ MatchClean
    \/ MatchIssue
    \/ ReportFound
    \/ ReportIssue
    \/ ReportEnd
    \/ ReportNone

\* the scan of a source tree
Spec == Init /\ [][Next]_vars

\* the scan of one file of bounded content
SpecUnit == InitUnit /\ [][Next]_vars

----------------------------------------------------------------------------
(* Vocabulary of the properties *)

Last(q) == q[Len(q)]

\* a step in which finditer yields one more region
Extracts == Len(regions') = Len(regions) + 1

TextOf(path) == data[path].text

\* the parts of a region r of the file it was found in
Matched(r) == SubSeq(TextOf(r.file), r.m.start + 1, r.m.end)
OpeningTag(r) == SubSeq(TextOf(r.file), r.m.start + 1, r.m.body)
Body(r) == SubSeq(TextOf(r.file), r.m.body + 1, r.m.close)

Blank(s) == \A i \in 1..Len(s) : s[i] \in Whitespace

\* the body without its {...} spans and <...> spans, trimmed
Residue(s) == Strip(SubSpans(SubSpans(s, "{", "}"), "<", ">"))

HasAlnum(s) == \E i \in 1..Len(s) : s[i] \in Alnum

\* dir is anc or lies below it
Below(dir, anc) == dir = anc \/ StartsAt(dir, anc \o Sep, 0)

\* the files below a directory whose path contains an excluded marker
ExcludedFiles ==
    UNION {{Join(d, f) : f \in Range(tree[d].files)} :
        d \in {d \in DOMAIN tree :
                 \E anc \in DOMAIN tree, mk \in Markers :
                     Below(d, anc) /\ Contains(anc, mk)}}

\* the last len(ext) characters of a path
HasExtension(path) ==
    \E ext \in Extensions :
        Len(path) >= Len(ext)
        /\ SubSeq(path, Len(path) - Len(ext) + 1, Len(path)) = ext

Finished == pc \in {"report", "print", "done"}

----------------------------------------------------------------------------
(* C4: no file below a directory whose path contains node_modules, .git   *)
(* or build (as a substring) is ever opened, at any depth, and no Issue    *)
(* names such a file.                                                      *)
C4_ExcludedNeverOpened ==
    /\ \A i \in 1..Len(opened) : opened[i] \notin ExcludedFiles
    /\ \A i \in 1..Len(issues) : issues[i].file \notin ExcludedFiles

\* the scan is over, it found issues, and it walked past a nested excluded
\* directory and a directory that only contains a marker in its name
C4_Witness ==
    /\ pc = "done"
    /\ issues # <<>>
    /\ Join(Join(Join(src_dir, n_node_modules), n_p), f_i) \in ExcludedFiles
    /\ Join(Join(src_dir, n_mybuild), f_e) \in ExcludedFiles
    /\ TextOf(Join(Join(src_dir, n_mybuild), f_e)) = Violating

(* C5: a file is opened only if its name ends in .tsx, .jsx, .ts or .js;   *)
(* a file of another extension is never opened and contributes no Issue.   *)
C5_OnlyRecognizedExtensions ==
    /\ \A i \in 1..Len(opened) : HasExtension(opened[i])
    /\ \A i \in 1..Len(issues) : HasExtension(issues[i].file)

\* the scan is over, files of all four extensions were opened and files of
\* other extensions with a violating region were passed by
C5_Witness ==
    /\ pc = "done"
    /\ \A ext \in Extensions : \E i \in 1..Len(opened) : EndsWith(opened[i], ext)
    /\ \E p \in FilesOf(tree) \ ExcludedFiles :
          /\ ~HasExtension(p)
          /\ Contains(p, <<".", "t", "s">>)
          /\ TextOf(p) = Violating

----------------------------------------------------------------------------
\* what scanning one readable file yields: the Issues of its regions from
\* offset from on, in match order
RECURSIVE ScanFrom(_, _, _)
ScanFrom(path, s, from) ==
    LET m == ViewSearch(s, from)
    IN  IF m = NoMatch THEN <<>>
        ELSE (IF HasAlnum(Residue(Group1(s, m))) THEN <<Issue(path, s, m)>> ELSE <<>>)
             \o ScanFrom(path, s, m.end)

\* the Issues of the files of a list of paths, unreadable ones giving none
RECURSIVE ScanAll(_)
ScanAll(paths) ==
    IF paths = <<>> THEN <<>>
    ELSE (IF data[Head(paths)].err = "none"
          THEN ScanFrom(Head(paths), TextOf(Head(paths)), 0) ELSE <<>>)
         \o ScanAll(Tail(paths))

\* the files the scan has to open
Eligible == {p \in FilesOf(tree) \ ExcludedFiles : HasExtension(p)}

Unreadable == {p \in Eligible : data[p].err # "none"}

ErrorsFor(p) == {i \in 1..Len(output) : output[i].kind = "Error reading" /\ output[i].path = p}

\* the step taken on a selected file that cannot be read
C1_FailingStep ==
    /\ pc = "files"
    /\ files # <<>>
    /\ Join(root, Head(files)) \in Unreadable

C1_Local ==
    C1_FailingStep =>
        /\ issues' = issues
        /\ Len(output') = Len(output) + 1
        /\ Last(output').kind = "Error reading"
        /\ Last(output').path = Join(root, Head(files))
        /\ pc' = "files"
        /\ files' = Tail(files)
        /\ stack' = stack

C1_Final ==
    Finished =>
        /\ Range(opened) = Eligible
        /\ \A p \in Eligible :
              Cardinality(ErrorsFor(p)) = IF p \in Unreadable THEN 1 ELSE 0
        /\ \A i \in 1..Len(issues) : issues[i].file \notin Unreadable
        /\ issues = ScanAll(opened)

(* C1: a selected file whose read fails prints one diagnostic line naming  *)
(* its path, appends no Issue, leaves the Issues collected so far as they  *)
(* are, and the scan goes on: every selected file after it is still opened *)
(* and scanned.                                                            *)
C1_ReadFailureIsLocal == []C1_Final /\ [][C1_Local]_vars

\* the scan is over; a file failed between two files that gave Issues
C1_Witness ==
    /\ pc = "done"
    /\ \E i, j, k \in 1..Len(opened) :
          /\ i < j /\ j < k
          /\ opened[j] \in Unreadable
          /\ \E x \in 1..Len(issues) : issues[x].file = opened[i]
          /\ \E x \in 1..Len(issues) : issues[x].file = opened[k]

----------------------------------------------------------------------------
\* where a path comes in the order the files were opened in
Visit(path) == CHOOSE i \in 1..Len(opened) : opened[i] = path

\* the regions that gave an Issue, in the order they were extracted in
Flagged == SelectSeq(regions, LAMBDA r : HasAlnum(Residue(Body(r))))

C8_AppendOnly ==
    \/ issues' = issues
    \/ /\ Len(issues') = Len(issues) + 1
       /\ SubSeq(issues', 1, Len(issues)) = issues

C8_Ordered ==
    /\ Len(Flagged) = Len(issues)
    /\ \A i \in 1..Len(issues) :
          /\ issues[i].file = Flagged[i].file
          /\ issues[i] = Issue(Flagged[i].file, TextOf(Flagged[i].file), Flagged[i].m)
    /\ \A i, j \in 1..Len(issues) :
          i < j =>
              \/ Visit(Flagged[i].file) < Visit(Flagged[j].file)
              \/ /\ Flagged[i].file = Flagged[j].file
                 /\ Flagged[i].m.start < Flagged[j].m.start

\* the lines the reporter's loop printed
Report == SelectSeq(output, LAMBDA l : l.kind \in {"File", "Line", "Content", "Rule"})

C8_Printed ==
    /\ Len(Report) = 4 * printed
    /\ \A i \in 1..printed :
          /\ Report[4 * i - 3] = [kind |-> "File", path |-> issues[i].file]
          /\ Report[4 * i - 2] = [kind |-> "Line", num |-> issues[i].line]
          /\ Report[4 * i - 1] = [kind |-> "Content", text |-> issues[i].content]
    /\ pc = "done" => printed = Len(issues)

(* C8: the collected Issues change only by appending one at the end; they  *)
(* are ordered by the order their files were visited in and, within a      *)
(* file, by the start offset of their region; the reporter prints them in  *)
(* that order.                                                             *)
C8_IssuesAppendOnlyInOrder ==
    [](C8_Ordered /\ C8_Printed) /\ [][C8_AppendOnly]_vars

\* the report is printed; two files gave Issues and one of them gave two
C8_Witness ==
    /\ pc = "done"
    /\ printed >= 3
    /\ \E i, j \in 1..Len(issues) : issues[i].file # issues[j].file
    /\ \E i, j \in 1..Len(issues) :
          i < j /\ issues[i].file = issues[j].file /\ issues[i].line < issues[j].line

----------------------------------------------------------------------------
\* the region the step extracts
New == Last(regions')

C2_Step ==
    /\ Extracts =>
          IF HasAlnum(Residue(Body(New)))
          THEN /\ Len(issues') = Len(issues) + 1
               /\ SubSeq(issues', 1, Len(issues)) = issues
               /\ Last(issues').file = New.file
          ELSE issues' = issues
    /\ ~Extracts => issues' = issues

(* C2: a region whose body, with every {...} span and every <...> span     *)
(* removed and trimmed, still holds an alphanumeric character gives        *)
(* exactly one Issue; a region with no such character left gives none.     *)
C2_IssueIffAlnumSurvives == [][C2_Step]_vars

\* a region lost a tag or an expression to the stripping and still gave an
\* Issue
C2_Witness ==
    /\ pc = "done"
    /\ Len(issues) = 1
    /\ \E i \in 1..Len(regions) :
          /\ Residue(Body(regions[i])) # Strip(Body(regions[i]))
          /\ HasAlnum(Residue(Body(regions[i])))

C3_Step ==
    (Extracts /\ Blank(Body(New))) =>
        /\ issues' = issues
        /\ New.stage = "discarded"

(* C3: a region whose body is empty or only whitespace gives no Issue and  *)
(* is discarded before the classification runs.                            *)
C3_BlankBodyDiscarded == [][C3_Step]_vars

\* a region with a body of whitespace was extracted
C3_Witness ==
    /\ pc = "done"
    /\ \E i \in 1..Len(regions) :
          /\ Body(regions[i]) # <<>>
          /\ Blank(Body(regions[i]))
          /\ regions[i].stage = "discarded"
    /\ issues = <<>>

\* the newlines of the file strictly before offset k
NewlinesBefore(path, k) ==
    Cardinality({i \in 1..Len(TextOf(path)) : i <= k /\ TextOf(path)[i] = "\n"})

C6_Step ==
    (Extracts /\ issues' # issues) =>
        /\ Last(issues').line >= 1
        /\ Last(issues').line = 1 + NewlinesBefore(New.file, New.m.start)

(* C6: the line of an Issue is at least 1 and is 1 plus the number of      *)
(* newline characters of the file content strictly before the start offset *)
(* of the matched region.                                                  *)
C6_LineNumber == [][C6_Step]_vars

\* an Issue of a region that starts on the second line
C6_Witness ==
    /\ pc = "done"
    /\ Len(issues) = 1
    /\ issues[1].line = 2
    /\ \E i \in 1..Len(regions) : regions[i].m.start = 1

C7_Step ==
    (Extracts /\ issues' # issues) =>
        LET g == Matched(New)
        IN  IF Len(g) > 100
            THEN /\ Len(Last(issues').content) = 103
                 /\ SubSeq(Last(issues').content, 1, 100) = SubSeq(g, 1, 100)
                 /\ SubSeq(Last(issues').content, 101, 103) = <<".", ".", ".">>
            ELSE Last(issues').content = g

(* C7: the snippet of an Issue is the matched region, opening tag through  *)
(* closing tag: its first 100 characters followed by `...` when it is      *)
(* longer than 100 characters, the region itself when it is 100 characters *)
(* or fewer.                                                               *)
C7_Snippet == [][C7_Step]_vars

\* an Issue of a region of more than 100 characters
C7_Witness ==
    /\ pc = "done"
    /\ Len(issues) = 1
    /\ Len(issues[1].content) = 103
    /\ \E i \in 1..Len(regions) : Len(Matched(regions[i])) = 101

C9_FirstClose(r) ==
    /\ StartsAt(TextOf(r.file), CloseLit, r.m.close)
    /\ r.m.end = r.m.close + 7
    /\ \A k \in r.m.body..(r.m.close - 1) : ~StartsAt(TextOf(r.file), CloseLit, k)

(* C9: every region ends at the first `</View>` after its opening tag, so  *)
(* a container holding another one stops at the inner closing tag; the     *)
(* regions of a file do not overlap and none starts inside an earlier one. *)
C9_FirstCloseNoOverlap ==
    /\ \A i \in 1..Len(regions) : C9_FirstClose(regions[i])
    /\ \A i, j \in 1..Len(regions) :
          (i < j /\ regions[i].file = regions[j].file) =>
              regions[i].m.end <= regions[j].m.start

\* a region that holds an opening container tag in its body and is followed
\* by a further closing tag
C9_Witness ==
    /\ pc = "done"
    /\ \E i \in 1..Len(regions) :
          /\ Contains(Body(regions[i]), OpenLit)
          /\ Find(TextOf(regions[i].file), CloseLit, regions[i].m.end) # -1

\* the opening tag is `<View`, then `>` or whitespace and attributes, and
\* does not end in `/>`
C10_ContainerTag(tag) ==
    /\ SubSeq(tag, 1, 5) = OpenLit
    /\ tag[6] = ">" \/ tag[6] \in Whitespace
    /\ tag[Len(tag) - 1] # "/"

(* C10: every region begins at an opening tag of the container itself: the *)
(* tag name is exactly View, with optional attributes; a tag whose name    *)
(* only starts with View, or a self-closing <View/>, never opens a region. *)
C10_OpensAtContainerTag ==
    \A i \in 1..Len(regions) : C10_ContainerTag(OpeningTag(regions[i]))

====
